---- MODULE Spec2Model ----
(***************************************************************************)
(* Evidence validator (src/utils/evidence_validator.py), indirect chain    *)
(* linker (src/utils/indirect_chain_linker.py) and the response extractor  *)
(* both call (src/utils/llm_response_parser.py).  Spec and SpecCall run    *)
(* the validator, SpecLink the linker, SpecExtract the extractor alone.    *)
(*                                                                         *)
(* A JSON object is a record.  A key the object may lack is modelled by a  *)
(* tag value: validity "ABSENT" is a missing `validity` key, a             *)
(* confidence_score of kind "none" is a missing (or null) score.           *)
(* A text is a sequence of tokens: a fence marker (three backticks), the   *)
(* language tag json, white space, a word of commentary, or the            *)
(* serialisation of one JSON value.  The protein database of the linker is *)
(* not part of the sources and is modelled as a dictionary keyed by pairs. *)
(***************************************************************************)
EXTENDS Integers, Sequences, FiniteSets, TLC

\* ------------------------------------------------------------------ bounds
\* longest ctx_json.interactors list of an input document
MaxInteractors == 2
\* largest batch_size argument
MaxBatchSize == 2
\* longest interactors list of a document given to the linker
MaxChains == 2
\* longest text, in tokens, given to the extractor on its own
MaxTextLen == 3

\* --------------------------------------------------------- program constants
max_retries == 3
base_delay == 5
\* the strict confidence threshold of the merge policy
confidence_threshold == 8
models_to_try == <<"gemini-3.0-pro-preview", "gemini-2.0-flash-thinking-exp-01-21">>

\* ------------------------------------------------------------------ values
NoScore == [k |-> "none", v |-> 0]
IntScore(n) == [k |-> "int", v |-> n]
\* a non-empty string that is no integer literal, e.g. "high"
TextScore == [k |-> "text", v |-> 0]

FunctionClaim(name, validity, score, consensus) ==
    [function |-> name, validity |-> validity, confidence_score |-> score,
     scientific_consensus |-> consensus]

Interactor(primary, validity, functions) ==
    [kind |-> "dict", primary |-> primary, validity |-> validity, functions |-> functions]

\* an element of an interactors array that is no JSON object (a string)
NonDictItem == [kind |-> "str", primary |-> "", validity |-> "ABSENT", functions |-> <<>>]

\* JSON values a reply can hold
JsonList(items) == [t |-> "list", has_key |-> FALSE, is_list |-> TRUE, items |-> items]
\* an object with an `interactors` key whose value is the list `items`
JsonInteractorsObject(items) == [t |-> "dict", has_key |-> TRUE, is_list |-> TRUE, items |-> items]
\* an object with an `interactors` key whose value is null
JsonInteractorsNull == [t |-> "dict", has_key |-> TRUE, is_list |-> FALSE, items |-> <<>>]
\* an object without `interactors` key, e.g. {"result": "ok"}
JsonOtherObject == [t |-> "dict", has_key |-> FALSE, is_list |-> FALSE, items |-> <<>>]
\* a number, string, boolean or null
JsonScalar == [t |-> "scalar", has_key |-> FALSE, is_list |-> FALSE, items |-> <<>>]

\* ------------------------------------------------------------------ tokens
Fence == [k |-> "fence", v |-> JsonScalar]
Tag == [k |-> "tag", v |-> JsonScalar]
Ws == [k |-> "ws", v |-> JsonScalar]
Junk == [k |-> "junk", v |-> JsonScalar]
Serialized(v) == [k |-> "json", v |-> v]
\* the two halves of the serialisation of a string that holds three
\* backticks: the opening quote with what stands before them, and what stands
\* after them with the closing quote
StrOpen == [k |-> "str_open", v |-> JsonScalar]
StrClose == [k |-> "str_close", v |-> JsonScalar]

\* a number, e.g. 1: a scalar whose serialisation holds no quote
JsonNumber == [t |-> "number", has_key |-> FALSE, is_list |-> FALSE, items |-> <<>>]

\* a string whose characters are the tokens inner: fence markers and numbers
StringOf(inner) == [t |-> "string", has_key |-> FALSE, is_list |-> FALSE, items |-> inner]

\* a string with three backticks in it, e.g. "a```b"
FencedString == StringOf(<<Fence>>)

\* json.dumps(v)
serialize(v) ==
    IF v.t = "string" THEN <<StrOpen>> \o v.items \o <<StrClose>> ELSE <<Serialized(v)>>

\* s is a string literal: quotes around fence markers and numbers
is_string_literal(s) ==
    /\ Len(s) >= 2
    /\ s[1] = StrOpen /\ s[Len(s)] = StrClose
    /\ \A i \in 2..(Len(s) - 1) : s[i] = Fence \/ s[i] = Serialized(JsonNumber)

\* the text argument: a str, or None
Str(chars) == [is_none |-> FALSE, chars |-> chars]
NoneText == [is_none |-> TRUE, chars |-> <<>>]

\* ---------------------------------------------------------------- extractor
RECURSIVE lstrip(_)
lstrip(text) ==
    IF text # <<>> /\ Head(text).k = "ws" THEN lstrip(Tail(text)) ELSE text

RECURSIVE rstrip(_)
rstrip(text) ==
    IF text # <<>> /\ text[Len(text)].k = "ws"
    THEN rstrip(SubSeq(text, 1, Len(text) - 1)) ELSE text

strip(text) == rstrip(lstrip(text))

\* json.loads: the text is white space around exactly one serialised value
json_loads(text) ==
    LET s == strip(text) IN
    IF Len(s) = 1 /\ s[1].k = "json"
    THEN [ok |-> TRUE, value |-> s[1].v]
    ELSE IF is_string_literal(s)
    THEN [ok |-> TRUE, value |-> StringOf(SubSeq(s, 2, Len(s) - 1))]
    ELSE [ok |-> FALSE, value |-> JsonScalar]

\* least index >= i of a token of kind k, 0 when there is none
RECURSIVE find_from(_, _, _)
find_from(text, k, i) ==
    IF i > Len(text) THEN 0
    ELSE IF text[i].k = k THEN i
    ELSE find_from(text, k, i + 1)

\* first index >= i that is not white space
RECURSIVE skip_ws(_, _)
skip_ws(text, i) ==
    IF i <= Len(text) /\ text[i].k = "ws" THEN skip_ws(text, i + 1) ELSE i

\* re.findall(r"```(?:json)?\s*([\s\S]*?)\s*```"): the captured contents of
\* the non-overlapping fenced blocks, left to right
RECURSIVE code_blocks(_, _)
code_blocks(text, i) ==
    LET open == find_from(text, "fence", i) IN
    IF open = 0 THEN <<>>
    ELSE LET after_tag == IF open < Len(text) /\ text[open + 1].k = "tag"
                          THEN open + 2 ELSE open + 1
             start == skip_ws(text, after_tag)
             close == find_from(text, "fence", start)
         IN  IF close = 0 THEN <<>>
             ELSE <<rstrip(SubSeq(text, start, close - 1))>>
                  \o code_blocks(text, close + 1)

\* the first block that parses, as a json_loads result
RECURSIVE first_parsing(_)
first_parsing(matches) ==
    IF matches = <<>> THEN [ok |-> FALSE, value |-> JsonScalar]
    ELSE IF json_loads(Head(matches)).ok THEN json_loads(Head(matches))
    ELSE first_parsing(Tail(matches))

\* the serialisation of v holds a "{" (and so a "}")
has_brace(v) ==
    v.t = "dict" \/ (v.t = "list" /\ \E i \in 1..Len(v.items) : v.items[i].kind = "dict")

\* the serialisation of v holds a "[" (and so a "]")
has_bracket(v) ==
    \/ v.t = "list"
    \/ v.t = "dict" /\ v.has_key /\ v.is_list

\* cleaned.find("{") and cleaned.find("["): 0 when there is none
first_brace(text) ==
    IF \E i \in 1..Len(text) : text[i].k = "json" /\ has_brace(text[i].v)
    THEN CHOOSE i \in 1..Len(text) :
            /\ text[i].k = "json" /\ has_brace(text[i].v)
            /\ \A j \in 1..(i - 1) : ~(text[j].k = "json" /\ has_brace(text[j].v))
    ELSE 0

first_bracket(text) ==
    IF \E i \in 1..Len(text) : text[i].k = "json" /\ has_bracket(text[i].v)
    THEN CHOOSE i \in 1..Len(text) :
            /\ text[i].k = "json" /\ has_bracket(text[i].v)
            /\ \A j \in 1..(i - 1) : ~(text[j].k = "json" /\ has_bracket(text[j].v))
    ELSE 0

\* cleaned.rfind("}") and cleaned.rfind("]")
last_brace(text) ==
    IF \E i \in 1..Len(text) : text[i].k = "json" /\ has_brace(text[i].v)
    THEN CHOOSE i \in 1..Len(text) :
            /\ text[i].k = "json" /\ has_brace(text[i].v)
            /\ \A j \in (i + 1)..Len(text) : ~(text[j].k = "json" /\ has_brace(text[j].v))
    ELSE 0

last_bracket(text) ==
    IF \E i \in 1..Len(text) : text[i].k = "json" /\ has_bracket(text[i].v)
    THEN CHOOSE i \in 1..Len(text) :
            /\ text[i].k = "json" /\ has_bracket(text[i].v)
            /\ \A j \in (i + 1)..Len(text) : ~(text[j].k = "json" /\ has_bracket(text[j].v))
    ELSE 0

\* stage 3: the span from the first opener to the last matching closer.  Two
\* indices in the same token: an opener is the token's first character when
\* the two first-opener searches meet in it; a closer is its last character
\* exactly when the value is of the closer's type.
span_candidate(text) ==
    LET fb == first_brace(text)
        fk == first_bracket(text)
        start_index == IF fb # 0 /\ fk # 0 THEN (IF fb < fk THEN fb ELSE fk)
                       ELSE IF fb # 0 THEN fb ELSE fk
    IN  IF start_index = 0 THEN [ok |-> FALSE, value |-> JsonScalar]
        ELSE LET is_object == text[start_index].v.t = "dict"
                 end_index == IF is_object THEN last_brace(text) ELSE last_bracket(text)
             IN  IF end_index = start_index
                 THEN json_loads(<<text[start_index]>>)
                 ELSE [ok |-> FALSE, value |-> JsonScalar]

\* lines 83-87: the message is built from len(text) and text[:200], which
\* raise TypeError for None before the ValueError exists
final_raise(text) == IF text.is_none THEN "TypeError" ELSE "ValueError"

\* the extractor with the whole-text parse tried before the fenced blocks
extract_whole_text_first(text) ==
    LET cleaned == strip(IF text.is_none THEN <<>> ELSE text.chars)
        fenced == first_parsing(code_blocks(cleaned, 1))
        whole == json_loads(cleaned)
        span == span_candidate(cleaned)
        return(r) == [ok |-> TRUE, value |-> r.value, error |-> "none", length |-> 0]
    IN  IF whole.ok THEN return(whole)
        ELSE IF fenced.ok THEN return(fenced)
        ELSE IF span.ok THEN return(span)
        ELSE [ok |-> FALSE, value |-> JsonScalar, error |-> final_raise(text),
              length |-> Len(text.chars)]

\* [ok |-> TRUE, value |-> v] for `return v`; ok = FALSE for a raise, with
\* the exception type in error and, for the parse error, the length its
\* message reports
extract_json_from_llm_response(text) ==
    LET cleaned == strip(IF text.is_none THEN <<>> ELSE text.chars)
        fenced == first_parsing(code_blocks(cleaned, 1))
        whole == json_loads(cleaned)
        span == span_candidate(cleaned)
        return(r) == [ok |-> TRUE, value |-> r.value, error |-> "none", length |-> 0]
    IN  IF fenced.ok THEN return(fenced)
        ELSE IF whole.ok THEN return(whole)
        ELSE IF span.ok THEN return(span)
        ELSE [ok |-> FALSE, value |-> JsonScalar, error |-> final_raise(text),
              length |-> Len(text.chars)]

\* ------------------------------------------------------------ merge policy
\* Python truthiness of func.get('confidence_score'): None and 0 are falsy
truthy(score) == ~(score.k = "none" \/ (score.k = "int" /\ score.v = 0))

\* func_verdict with the FALSE test left out
func_verdict_keeps_false(func) ==
    LET validity == IF func.validity = "ABSENT" THEN "TRUE" ELSE func.validity IN
    IF validity = "DELETED" THEN "drop"
    ELSE IF validity = "CORRECTED" /\ ~func.scientific_consensus THEN "raise"
    ELSE IF validity = "TRUE" /\ truthy(func.confidence_score)
         THEN IF func.confidence_score.k = "text" THEN "raise"
              ELSE IF func.confidence_score.v < confidence_threshold THEN "drop"
              ELSE "keep"
    ELSE "keep"

\* what the body of the loop over val_int['functions'] does with one claim:
\* "drop" (continue), "keep" (append) or "raise" (an exception leaves the loop)
func_verdict(func) ==
    LET validity == IF func.validity = "ABSENT" THEN "TRUE" ELSE func.validity IN
    IF validity = "DELETED" \/ validity = "FALSE" THEN "drop"
    \* func.get('scientific_consensus')[:100] on a missing key: TypeError
    ELSE IF validity = "CORRECTED" /\ ~func.scientific_consensus THEN "raise"
    ELSE IF validity = "TRUE" /\ truthy(func.confidence_score)
         THEN \* int("high"): ValueError
              IF func.confidence_score.k = "text" THEN "raise"
              ELSE IF func.confidence_score.v < confidence_threshold THEN "drop"
              ELSE "keep"
    ELSE "keep"

\* filter_functions inserting each kept claim at the front
RECURSIVE filter_functions_reversed(_)
filter_functions_reversed(functions) ==
    IF functions = <<>> THEN [raised |-> FALSE, valid_functions |-> <<>>]
    ELSE LET verdict == func_verdict(Head(functions))
             rest == filter_functions_reversed(Tail(functions))
         IN  IF verdict = "raise" THEN [raised |-> TRUE, valid_functions |-> <<>>]
             ELSE IF verdict = "drop" THEN rest
             ELSE [raised |-> rest.raised,
                   valid_functions |-> IF rest.raised THEN <<>>
                                       ELSE rest.valid_functions \o <<Head(functions)>>]

\* the loop over the claims: the claims appended to valid_functions, and
\* whether an exception ended the loop
RECURSIVE filter_functions(_)
filter_functions(functions) ==
    IF functions = <<>> THEN [raised |-> FALSE, valid_functions |-> <<>>]
    ELSE LET verdict == func_verdict(Head(functions))
             rest == filter_functions(Tail(functions))
         IN  IF verdict = "raise" THEN [raised |-> TRUE, valid_functions |-> <<>>]
             ELSE IF verdict = "drop" THEN rest
             ELSE [raised |-> rest.raised,
                   valid_functions |-> IF rest.raised THEN <<>>
                                       ELSE <<Head(functions)>> \o rest.valid_functions]

\* is_deleted with the test left out
is_deleted_never(val_int) == FALSE

\* top-level test that removes a whole interactor
is_deleted(val_int) == val_int.validity = "DELETED"

\* no_valid_functions with the test left out
no_valid_functions_never(val_int, valid_functions) == FALSE

\* the test after the claims were filtered: remove the interactor
no_valid_functions(val_int, valid_functions) ==
    valid_functions = <<>> /\ ~(val_int.validity = "TRUE")

\* The loop `for val_int in batch_results` from element i on.  acc holds
\*   validated: validated_interactors so far, out: its history,
\*   batch: the batch (its elements are the very objects of batch_results
\*          when aliased, so val_int['functions'] = ... changes them),
\*   raised: an exception left the loop.
RECURSIVE process_results(_, _, _, _, _)
process_results(batch_results, i, aliased, batch_no, acc) ==
    IF i > Len(batch_results) THEN acc
    ELSE LET val_int == batch_results[i]
             filtered == filter_functions(val_int.functions)
             mutated == [val_int EXCEPT !.functions = filtered.valid_functions]
         IN  IF val_int.kind # "dict" THEN [acc EXCEPT !.raised = TRUE]
             ELSE IF is_deleted(val_int)
                  THEN process_results(batch_results, i + 1, aliased, batch_no, acc)
             ELSE IF filtered.raised THEN [acc EXCEPT !.raised = TRUE]
             ELSE IF no_valid_functions(val_int, filtered.valid_functions)
                  THEN process_results(batch_results, i + 1, aliased, batch_no,
                           [acc EXCEPT !.batch = IF aliased THEN [@ EXCEPT ![i] = mutated] ELSE @])
             ELSE process_results(batch_results, i + 1, aliased, batch_no,
                      [acc EXCEPT
                         !.batch = IF aliased THEN [@ EXCEPT ![i] = mutated] ELSE @,
                         !.validated = Append(@, mutated),
                         !.out = Append(@, [batch_no |-> batch_no, how |-> "merge",
                                            pre |-> val_int])])

\* validated_interactors.extend(batch) of the except clause
RECURSIVE fallback_history(_, _)
fallback_history(batch, batch_no) ==
    IF batch = <<>> THEN <<>>
    ELSE <<[batch_no |-> batch_no, how |-> "fallback", pre |-> Head(batch)]>>
         \o fallback_history(Tail(batch), batch_no)

\* ------------------------------------------------------------------ inputs
\* interactors an input document can hold: two with claims left by an
\* earlier run (the second with a CORRECTED claim that lacks
\* scientific_consensus), and one without claims
OriginalPool ==
    { Interactor("P1", "ABSENT",
          <<FunctionClaim("f1", "ABSENT", IntScore(5), FALSE),
            FunctionClaim("f2", "FALSE", NoScore, FALSE)>>),
      Interactor("P2", "ABSENT", <<>>),
      Interactor("P3", "TRUE",
          <<FunctionClaim("f1", "TRUE", IntScore(9), FALSE),
            FunctionClaim("f2", "CORRECTED", NoScore, FALSE)>>) }

RECURSIVE SeqsUpTo(_, _)
SeqsUpTo(S, n) ==
    IF n = 0 THEN {<<>>}
    ELSE LET shorter == SeqsUpTo(S, n - 1) IN
         shorter \cup {Append(q, x) : q \in {r \in shorter : Len(r) = n - 1}, x \in S}

R_mix ==
    Interactor("P1", "ABSENT",
        <<FunctionClaim("f1", "TRUE", IntScore(9), TRUE),
          FunctionClaim("f2", "FALSE", IntScore(9), TRUE),
          FunctionClaim("f3", "CORRECTED", IntScore(5), TRUE),
          FunctionClaim("f4", "DELETED", NoScore, FALSE),
          FunctionClaim("f5", "UNPROVEN", IntScore(5), FALSE)>>)

R_scores ==
    Interactor("P1", "ABSENT",
        <<FunctionClaim("f1", "TRUE", IntScore(0), FALSE),
          FunctionClaim("f2", "TRUE", IntScore(7), FALSE),
          FunctionClaim("f3", "TRUE", IntScore(8), FALSE),
          FunctionClaim("f4", "TRUE", NoScore, FALSE),
          FunctionClaim("f5", "ABSENT", IntScore(5), FALSE),
          FunctionClaim("f6", "ABSENT", IntScore(9), FALSE)>>)

R_deleted ==
    Interactor("P1", "DELETED", <<FunctionClaim("f1", "TRUE", IntScore(9), TRUE)>>)

R_all_dropped ==
    Interactor("P2", "ABSENT",
        <<FunctionClaim("f1", "TRUE", IntScore(5), TRUE),
          FunctionClaim("f2", "FALSE", NoScore, FALSE)>>)

R_true_empty ==
    Interactor("P2", "TRUE", <<FunctionClaim("f1", "FALSE", NoScore, FALSE)>>)

\* a CORRECTED claim without scientific_consensus
R_bad_corrected ==
    Interactor("P2", "ABSENT",
        <<FunctionClaim("f1", "TRUE", IntScore(9), TRUE),
          FunctionClaim("f2", "CORRECTED", NoScore, FALSE)>>)

\* a TRUE claim whose confidence_score is a word
R_text_score ==
    Interactor("P2", "ABSENT", <<FunctionClaim("f1", "TRUE", TextScore, FALSE)>>)

\* the interactor lists a reply can hold
ReplyLists ==
    { <<>>, <<R_mix>>, <<R_scores>>, <<R_all_dropped>>, <<R_true_empty>>,
      <<R_text_score>>, <<NonDictItem>>,
      <<R_deleted, R_mix>>, <<R_mix, R_bad_corrected>> }

ReplyValues ==
    {JsonList(l) : l \in ReplyLists} \cup {JsonInteractorsObject(l) : l \in ReplyLists}
    \cup {JsonInteractorsNull, JsonOtherObject, JsonScalar}

\* the text that carries the value v: a list comes in a fenced block after
\* commentary, an object with `interactors` between commentary, any other
\* value alone
TextOf(v) ==
    IF v.t = "list" THEN <<Junk, Ws, Fence, Tag, Ws, Serialized(v), Ws, Fence>>
    ELSE IF v.has_key /\ v.is_list THEN <<Junk, Ws, Serialized(v), Ws, Junk>>
    ELSE <<Ws, Serialized(v), Ws>>

ReplyTexts ==
    {TextOf(v) : v \in ReplyValues}
    \cup { <<>>, <<Junk>>, <<Fence, Tag, Ws, Junk, Ws, Fence>> }

\* ------------------------------------------------------------------- state
VARIABLES
    json_data,              \* the document: ctx_json, snapshot_json and their interactors
    batch_size,             \* the batch_size argument
    pc,                     \* "init", "call" (waiting for generate_content), "returned", "raised"
    batch_start,            \* loop variable of validate_and_enrich_evidence
    validated_interactors,  \* the list the loop builds
    model_idx,              \* position in models_to_try of call_gemini_with_search
    attempt,                \* loop variable of call_gemini_with_search
    tracing,                \* whether calls is recorded
    calls,                  \* history: the attempts of the latest service invocation
    call_result,            \* history: "pending", "returned" or "raised" for that invocation
    input,                  \* history: ctx_json.interactors as passed in
    out_hist,               \* history: for each element of validated_interactors, how it got there
    batch_hist              \* history: one record for each batch that was finished

\* process_indirect_chain of indirect_chain_linker.py
VARIABLES
    api_key,                \* the api_key argument: "key" or "" (none given)
    env_key,                \* GOOGLE_API_KEY in the environment: "key" or "none"
    ctx_json,               \* the interactors of the document the linker is given
    store,                  \* the protein database: (mediator, target) -> record
    lk_pc,                  \* "idle", "init", "call", "returned", "raised"
    chain_idx,              \* position of the loop in indirect_interactors
    linked_count,           \* the count the linker reports
    lk_model_idx,           \* position in the models_to_try of call_gemini_chain_link
    second_run,             \* the linker was called again on the same document
    lk_calls,               \* history: the attempts of the latest call_gemini_chain_link
    lk_call_result,         \* history: "pending", "returned" or "raised" for that call
    sent,                   \* history: positions in ctx_json a service call was made for
    chain_hist,             \* history: one record for each chain that was finished
    store_reads,            \* history: get_all_interactions calls of this run
    store_writes,           \* history: save_interaction calls of this run
    ctx_in,                 \* history: ctx_json as passed to this run
    store_in,               \* history: the store before the first run
    save_log                \* history: the save_interaction calls of all runs, in order

\* extract_json_from_llm_response called on its own
VARIABLES
    text_in,                \* the text argument
    extracted               \* the result of the call, or that there is none yet

validator_vars ==
    <<json_data, batch_size, pc, batch_start, validated_interactors, model_idx,
      attempt, tracing, calls, call_result, input, out_hist, batch_hist>>

linker_vars ==
    <<api_key, env_key, ctx_json, store, lk_pc, chain_idx, linked_count, lk_model_idx,
      second_run, lk_calls, lk_call_result, sent, chain_hist, store_reads, store_writes,
      ctx_in, store_in, save_log>>

extractor_vars == <<text_in, extracted>>

vars == <<validator_vars, linker_vars, extractor_vars>>

Document(has_ctx, has_snapshot, interactors) ==
    [has_ctx |-> has_ctx, has_snapshot |-> has_snapshot, interactors |-> interactors,
     snapshot_interactors |-> IF has_snapshot THEN interactors ELSE <<>>]

Documents ==
    {Document(TRUE, s, l) : s \in BOOLEAN, l \in SeqsUpTo(OriginalPool, MaxInteractors)}
    \cup {Document(FALSE, FALSE, <<>>)}

\* the linker is not running
LinkIdle ==
    /\ api_key = ""
    /\ env_key = "none"
    /\ ctx_json = <<>>
    /\ store = <<>>
    /\ lk_pc = "idle"
    /\ chain_idx = 0
    /\ linked_count = 0
    /\ lk_model_idx = 1
    /\ second_run = FALSE
    /\ lk_calls = <<>>
    /\ lk_call_result = "pending"
    /\ sent = <<>>
    /\ chain_hist = <<>>
    /\ store_reads = 0
    /\ store_writes = 0
    /\ ctx_in = <<>>
    /\ store_in = <<>>
    /\ save_log = <<>>

\* the value of extracted while there is no result: why is "idle" or "pending"
NotCalled(why) == [ok |-> FALSE, value |-> JsonScalar, error |-> why, length |-> 0]

\* the extractor is not called on its own
ExtractorIdle ==
    /\ text_in = Str(<<>>)
    /\ extracted = NotCalled("idle")

\* the validator is not running
ValidatorIdle ==
    /\ json_data = Document(FALSE, FALSE, <<>>)
    /\ batch_size = 1
    /\ pc = "idle"
    /\ batch_start = 0
    /\ validated_interactors = <<>>
    /\ model_idx = 1
    /\ attempt = 1
    /\ tracing = FALSE
    /\ calls = <<>>
    /\ call_result = "pending"
    /\ input = <<>>
    /\ out_hist = <<>>
    /\ batch_hist = <<>>

InitWith(docs, trace) ==
    /\ LinkIdle
    /\ ExtractorIdle
    /\ json_data \in docs
    /\ batch_size \in {-1} \cup (0..MaxBatchSize)
    /\ pc = "init"
    /\ batch_start = 0
    /\ validated_interactors = <<>>
    /\ model_idx = 1
    /\ attempt = 1
    /\ tracing = trace
    /\ calls = <<>>
    /\ call_result = "pending"
    /\ input = json_data.interactors
    /\ out_hist = <<>>
    /\ batch_hist = <<>>

Init == InitWith(Documents, FALSE)

\* the service invocation observed: one document of each length, and the
\* attempts recorded in calls
CallDocuments ==
    {Document(TRUE, FALSE, l) :
        l \in SeqsUpTo({Interactor("P2", "ABSENT", <<>>)}, MaxInteractors)}

InitCall == InitWith(CallDocuments, TRUE)

\* --------------------------------------------------------------- validator
Min(a, b) == IF a < b THEN a ELSE b

\* interactors[batch_start:batch_end]
batch_at(interactors, start) ==
    SubSeq(interactors, start + 1, Min(start + batch_size, Len(interactors)))

\* the prompt embeds batch[0].get('primary'): AttributeError when batch[0]
\* is no object.  The call stands outside the try block.
create_rigorous_validation_prompt(batch) ==
    [raised |-> batch[1].kind # "dict"]

\* in_range of a range that ends one batch early
in_range_stops_early(start, interactors) ==
    batch_size > 0 /\ start + batch_size < Len(interactors)

\* range(0, len(interactors), batch_size) yields start
in_range(start, interactors) ==
    batch_size > 0 /\ start < Len(interactors)

\* interactors with the elements of the batch at start replaced by batch
with_batch(interactors, start, batch) ==
    [i \in 1..Len(interactors) |->
        IF i > start /\ i <= start + Len(batch) THEN batch[i - start] ELSE interactors[i]]

\* write_back that leaves snapshot_json as it was
write_back_without_mirror(doc, validated) == [doc EXCEPT !.interactors = validated]

\* lines 313-319: write the result back and return the document
write_back(doc, validated) ==
    [doc EXCEPT !.interactors = validated,
                !.snapshot_interactors = IF doc.has_snapshot THEN validated ELSE @]

\* The loop goes on from batch start `start`: the next prompt is built and the
\* next service invocation begins, or the loop is over and the document is
\* written back.
Proceed(start, interactors, validated, out, hist) ==
    /\ validated_interactors' = validated
    /\ out_hist' = out
    /\ batch_hist' = hist
    /\ model_idx' = 1
    /\ attempt' = 1
    /\ IF in_range(start, interactors)
       THEN /\ batch_start' = start
            /\ json_data' = [json_data EXCEPT !.interactors = interactors]
            /\ pc' = IF create_rigorous_validation_prompt(batch_at(interactors, start)).raised
                     THEN "raised" ELSE "call"
       ELSE /\ batch_start' = batch_start
            /\ json_data' = write_back(json_data, validated)
            /\ pc' = "returned"

\* validate_and_enrich_evidence is called
Start ==
    /\ pc = "init"
    /\ UNCHANGED <<linker_vars, extractor_vars>>
    /\ UNCHANGED <<batch_size, tracing, calls, call_result, input>>
    /\ IF ~json_data.has_ctx \/ json_data.interactors = <<>>
       THEN /\ pc' = "returned"
            /\ UNCHANGED <<json_data, batch_start, validated_interactors, model_idx,
                           attempt, out_hist, batch_hist>>
       ELSE IF batch_size = 0
       THEN \* range() arg 3 must not be zero: ValueError
            /\ pc' = "raised"
            /\ UNCHANGED <<json_data, batch_start, validated_interactors, model_idx,
                           attempt, out_hist, batch_hist>>
       ELSE Proceed(0, json_data.interactors, <<>>, <<>>, <<>>)

\* the attempts of the invocation that is under way
current_calls == IF call_result = "pending" THEN calls ELSE <<>>

logged(entry) == IF tracing THEN Append(current_calls, entry) ELSE calls

batch_no == Len(batch_hist) + 1

\* Fallback without validated_interactors.extend(batch)
Fallback_without_extend(outcome, shape, results, validated, out, batch) ==
    Proceed(batch_start + batch_size,
            with_batch(json_data.interactors, batch_start, batch),
            validated, out,
            Append(batch_hist,
                   [start |-> batch_start, size |-> Len(batch), outcome |-> outcome,
                    shape |-> shape, results |-> results,
                    out_from |-> Len(validated_interactors)]))

\* the except clause of the batch: the batch, as it is now, is appended
Fallback(outcome, shape, results, validated, out, batch) ==
    Proceed(batch_start + batch_size,
            with_batch(json_data.interactors, batch_start, batch),
            validated \o batch,
            out \o fallback_history(batch, batch_no),
            Append(batch_hist,
                   [start |-> batch_start, size |-> Len(batch), outcome |-> outcome,
                    shape |-> shape, results |-> results,
                    out_from |-> Len(validated_interactors)]))

\* lines 257-307 for the reply text
ProcessReply(text) ==
    \E batch \in {batch_at(json_data.interactors, batch_start)} :
    \E result_json \in {extract_json_from_llm_response(Str(text))} :
    LET value == result_json.value
        \* "interactors": a list, or an object with an `interactors` key
        shape == IF value.t = "list" \/ (value.t = "dict" /\ value.has_key)
                 THEN "interactors" ELSE "other"
        batch_results == IF shape = "other" THEN batch ELSE value.items
    IN  IF ~result_json.ok
        THEN Fallback("parse_failed", "none", <<>>, validated_interactors, out_hist, batch)
        ELSE IF shape = "interactors" /\ ~value.is_list
        THEN \* for val_int in None: TypeError
             Fallback("merge_failed", shape, <<>>, validated_interactors, out_hist, batch)
        ELSE \E acc \in {process_results(batch_results, 1, shape = "other", batch_no,
                             [raised |-> FALSE, validated |-> validated_interactors,
                              out |-> out_hist, batch |-> batch])} :
             IF acc.raised
             THEN Fallback("merge_failed", shape, batch_results, acc.validated, acc.out,
                           acc.batch)
             ELSE Proceed(batch_start + batch_size,
                          with_batch(json_data.interactors, batch_start, acc.batch),
                          acc.validated, acc.out,
                          Append(batch_hist,
                                 [start |-> batch_start, size |-> Len(batch),
                                  outcome |-> "processed", shape |-> shape,
                                  results |-> batch_results,
                                  out_from |-> Len(validated_interactors)]))

\* generate_content returns a response with the text `text`
GenerateContentReturns(text) ==
    /\ pc = "call"
    /\ calls' = logged([model |-> model_idx, attempt |-> attempt, outcome |-> "ok",
                        slept |-> 0])
    /\ call_result' = "returned"
    /\ ProcessReply(strip(text))
    /\ UNCHANGED <<batch_size, tracing, input, linker_vars, extractor_vars>>

\* backoff_delay without the doubling
backoff_delay_constant(n) == base_delay

\* time.sleep(delay) after a failed attempt: the delay
backoff_delay(n) == base_delay * (2 ^ (n - 1))

\* retries_left with range(1, max_retries + 2)
retries_left_one_more(err, n) == err # "not_found" /\ n < max_retries + 1

\* retries_left without the break on a 404 / "not found" error
retries_left_after_not_found(err, n) == n < max_retries

\* the attempt loop goes on with the same model after this failure
retries_left(err, n) == err # "not_found" /\ n < max_retries

\* models_left with the model loop cut after its first model
models_left_never(idx) == FALSE

\* the loop over models_to_try has a model after the one at idx
models_left(idx) == idx < Len(models_to_try)

\* generate_content raises, or returns a response without text (err "no_text",
\* which raises "No text in response" inside the same try block)
GenerateContentFails(err) ==
    /\ pc = "call"
    /\ UNCHANGED <<batch_size, tracing, input, linker_vars, extractor_vars>>
    /\ calls' = logged([model |-> model_idx, attempt |-> attempt,
                        outcome |-> IF err = "not_found" THEN "not_found" ELSE "error",
                        slept |-> IF retries_left(err, attempt)
                                  THEN backoff_delay(attempt) ELSE 0])
    /\ IF retries_left(err, attempt)
       THEN /\ attempt' = attempt + 1
            /\ call_result' = "pending"
            /\ UNCHANGED <<json_data, pc, batch_start, validated_interactors, model_idx,
                           out_hist, batch_hist>>
       ELSE IF models_left(model_idx)
       THEN /\ model_idx' = model_idx + 1
            /\ attempt' = 1
            /\ call_result' = "pending"
            /\ UNCHANGED <<json_data, pc, batch_start, validated_interactors,
                           out_hist, batch_hist>>
       ELSE \* raise EvidenceValidatorError("All models failed."), caught at line 309
            /\ call_result' = "raised"
            /\ Fallback("service_failed", "none", <<>>, validated_interactors, out_hist,
                        batch_at(json_data.interactors, batch_start))

ServiceErrors == {"not_found", "transient", "no_text"}

Next ==
    \/ Start
    \/ \E text \in ReplyTexts : GenerateContentReturns(text)
    \/ \E err \in ServiceErrors : GenerateContentFails(err)

Spec == Init /\ [][Next]_vars

SpecCall == InitCall /\ [][Next]_vars

\* ------------------------------------------------------------------ linker
\* the models_to_try of call_gemini_chain_link
chain_models_to_try == <<"gemini-2.5-pro">>

\* ctx_json.get("main")
main_protein == "MAIN"

\* an interactor of the linker's document; upstream "none": no
\* upstream_interactor (absent, null or empty)
LinkInteractor(primary, interaction_type, upstream) ==
    [primary |-> primary, interaction_type |-> interaction_type,
     upstream_interactor |-> upstream, linked_mediator_interaction |-> "none"]

LinkPool ==
    { LinkInteractor("T1", "indirect", "M1"),
      LinkInteractor("T2", "indirect", "M1"),
      LinkInteractor("T3", "direct", "M1"),
      LinkInteractor("T1", "indirect", "none") }

\* JSON values a reply to the chain prompt can hold; `empty`: the value is
\* falsy in Python ({}, [], null, 0, "", false)
LinkJson(t, items, empty, function, arrow) ==
    [t |-> t, has_key |-> FALSE, is_list |-> t = "list", items |-> items,
     empty |-> empty, function |-> function, arrow |-> arrow]

\* a claim object with an arrow, one without (result_json.get("arrow") is None)
ClaimA == LinkJson("dict", <<>>, FALSE, "phosphorylates", "activates")
ClaimB == LinkJson("dict", <<>>, FALSE, "ubiquitinates", "none")
\* the claim the store holds before the first run
ClaimOld == LinkJson("dict", <<>>, FALSE, "binds", "binds")
EmptyObject == LinkJson("dict", <<>>, TRUE, "", "none")
EmptyList == LinkJson("list", <<>>, TRUE, "", "none")
NonEmptyList == LinkJson("list", <<NonDictItem>>, FALSE, "", "none")
Number == LinkJson("scalar", <<>>, FALSE, "", "none")
Null == LinkJson("scalar", <<>>, TRUE, "", "none")

ChainReplyValues == {ClaimA, ClaimB, EmptyObject, EmptyList, NonEmptyList, Number, Null}

\* the text that carries the value v: a claim comes in a fenced block after
\* commentary, any other value alone
ChainTextOf(v) ==
    IF v.t = "dict" /\ ~v.empty THEN <<Junk, Ws, Fence, Tag, Ws, Serialized(v), Ws, Fence>>
    ELSE <<Ws, Serialized(v), Ws>>

ChainReplyTexts == {ChainTextOf(v) : v \in ChainReplyValues} \cup { <<>>, <<Ws>>, <<Junk>> }

\* the record of a mediator -> target interaction
InteractionRecord(primary, arrow, functions, interaction_type, discovered_in_query) ==
    [primary |-> primary, arrow |-> arrow, functions |-> functions,
     interaction_type |-> interaction_type, discovered_in_query |-> discovered_in_query]

\* the protein database: a dictionary from (protein_a, protein_b) to the
\* record saved under that pair
EmptyStore == [k \in {} |-> InteractionRecord("", "", <<>>, "", "")]

\* pdb.save_interaction(protein_a, protein_b, record)
save_interaction(db, protein_a, protein_b, record) ==
    [k \in DOMAIN db \cup {<<protein_a, protein_b>>} |->
        IF k = <<protein_a, protein_b>> THEN record ELSE db[k]]

\* pdb.get_all_interactions(protein): the records saved for protein
get_all_interactions(db, protein) ==
    {db[k] : k \in {key \in DOMAIN db : key[1] = protein}}

\* a store that already holds a record for M1 -> T1, found in another query
StoreWithRecord ==
    save_interaction(EmptyStore, "M1", "T1",
                     InteractionRecord("T1", "binds", <<ClaimOld>>, "direct", "OLD"))

InitLink ==
    /\ ValidatorIdle
    /\ ExtractorIdle
    /\ api_key \in {"key", ""}
    /\ env_key \in {"key", "none"}
    /\ ctx_json \in SeqsUpTo(LinkPool, MaxChains)
    /\ store \in {EmptyStore, StoreWithRecord}
    /\ lk_pc = "init"
    /\ chain_idx = 0
    /\ linked_count = 0
    /\ lk_model_idx = 1
    /\ second_run = FALSE
    /\ lk_calls = <<>>
    /\ lk_call_result = "pending"
    /\ sent = <<>>
    /\ chain_hist = <<>>
    /\ store_reads = 0
    /\ store_writes = 0
    /\ ctx_in = ctx_json
    /\ store_in = store
    /\ save_log = <<>>

\* has_credential with the key check of line 117 left out
has_credential_always(arg, env) == TRUE

\* lines 114-117: the key given, else the one of the environment, is there
has_credential(arg, env) ==
    LET key == IF arg # "" THEN arg ELSE env
    IN  key \notin {"", "none"}

\* is_indirect without the upstream_interactor condition
is_indirect_any_upstream(i) == i.interaction_type = "indirect"

\* the condition of lines 125-128
is_indirect(i) ==
    i.interaction_type = "indirect" /\ i.upstream_interactor # "none"

\* the positions in interactors of the elements of indirect_interactors
RECURSIVE positions_from(_, _)
positions_from(interactors, i) ==
    IF i > Len(interactors) THEN <<>>
    ELSE (IF is_indirect(interactors[i]) THEN <<i>> ELSE <<>>)
         \o positions_from(interactors, i + 1)

indirect_interactors(interactors) == positions_from(interactors, 1)

\* f"{mediator_name}->{target_name}"
back_reference(mediator_name, target_name) == <<mediator_name, "->", target_name>>

\* the loop goes on with chain idx, or is over and the linker returns
NextChain(idx) ==
    /\ lk_model_idx' = 1
    /\ IF idx <= Len(indirect_interactors(ctx_json))
       THEN /\ chain_idx' = idx
            /\ lk_pc' = "call"
            /\ sent' = Append(sent, indirect_interactors(ctx_json)[idx])
       ELSE /\ chain_idx' = chain_idx
            /\ lk_pc' = "returned"
            /\ sent' = sent

\* process_indirect_chain is called
LinkStart ==
    /\ lk_pc = "init"
    /\ UNCHANGED <<validator_vars, extractor_vars>>
    /\ UNCHANGED <<api_key, env_key, ctx_json, store, linked_count, second_run, lk_calls,
                   lk_call_result, chain_hist, store_reads, store_writes, ctx_in,
                   store_in, save_log>>
    /\ IF ~has_credential(api_key, env_key)
       THEN lk_pc' = "returned" /\ UNCHANGED <<chain_idx, lk_model_idx, sent>>
       ELSE NextChain(1)

\* the `if existing_int` branch without the append: the new record replaces
\* the one in the store
merged_record_overwrites(existing, interaction_data, result_json) == interaction_data

\* lines 221-227: the record to save, given the records of the mediator whose
\* primary is the target
merged_record(existing, interaction_data, result_json) ==
    IF existing # {}
    THEN LET existing_int == CHOOSE r \in existing : TRUE
         IN  [existing_int EXCEPT !.functions = Append(@, result_json)]
    ELSE interaction_data

\* the chain is over without a save (continue, or `if result_json` is false)
SkipChain(reply) ==
    /\ chain_hist' = Append(chain_hist,
                            [pos |-> indirect_interactors(ctx_json)[chain_idx],
                             reply |-> reply, saved |-> FALSE])
    /\ UNCHANGED <<ctx_json, store, linked_count, store_reads, store_writes, save_log>>
    /\ NextChain(chain_idx + 1)

\* lines 201-236 for the text call_gemini_chain_link returned
ProcessChain(result_text) ==
    \E result_json \in {extract_json_from_llm_response(Str(result_text))} :
    LET pos == indirect_interactors(ctx_json)[chain_idx]
        target_name == ctx_json[pos].primary
        mediator_name == ctx_json[pos].upstream_interactor
        value == result_json.value
    IN  IF ~result_json.ok
        THEN SkipChain("unparsed")
        ELSE IF value.empty
        THEN SkipChain("empty")
        ELSE IF value.t # "dict"
        THEN \* result_json.get("arrow"): AttributeError, outside the try block
             /\ lk_pc' = "raised"
             /\ chain_hist' = Append(chain_hist,
                                     [pos |-> pos, reply |-> "other", saved |-> FALSE])
             /\ UNCHANGED <<ctx_json, store, linked_count, store_reads, store_writes,
                            save_log, chain_idx, lk_model_idx, sent>>
        ELSE LET interaction_data ==
                     InteractionRecord(target_name, value.arrow, <<value>>, "direct",
                                       main_protein)
                 existing == {r \in get_all_interactions(store, mediator_name) :
                                  r.primary = target_name}
                 record == merged_record(existing, interaction_data, value)
             IN  /\ store' = save_interaction(store, mediator_name, target_name, record)
                 /\ store_reads' = store_reads + 1
                 /\ store_writes' = store_writes + 1
                 /\ save_log' = Append(save_log,
                                       [mediator |-> mediator_name, target |-> target_name,
                                        claim |-> value])
                 /\ linked_count' = linked_count + 1
                 /\ ctx_json' = [ctx_json EXCEPT ![pos].linked_mediator_interaction =
                                     back_reference(mediator_name, target_name)]
                 /\ chain_hist' = Append(chain_hist,
                                         [pos |-> pos, reply |-> "object", saved |-> TRUE])
                 /\ NextChain(chain_idx + 1)

\* the attempts of the call_gemini_chain_link call that is under way
current_chain_calls == IF lk_call_result = "pending" THEN lk_calls ELSE <<>>

\* generate_content returns a response with the text `text`
ChainLinkReturns(text) ==
    /\ lk_pc = "call"
    /\ UNCHANGED <<validator_vars, extractor_vars>>
    /\ UNCHANGED <<api_key, env_key, second_run, ctx_in, store_in>>
    /\ lk_calls' = Append(current_chain_calls,
                          [model |-> lk_model_idx, attempt |-> 1, outcome |-> "ok",
                           slept |-> 0])
    /\ lk_call_result' = "returned"
    /\ ProcessChain(strip(text))

\* generate_content raises, or returns a response without text: the loop
\* goes to the next model, and after the last model the call returns ""
ChainLinkFails ==
    /\ lk_pc = "call"
    /\ UNCHANGED <<validator_vars, extractor_vars>>
    /\ UNCHANGED <<api_key, env_key, second_run, ctx_in, store_in>>
    /\ lk_calls' = Append(current_chain_calls,
                          [model |-> lk_model_idx, attempt |-> 1, outcome |-> "error",
                           slept |-> 0])
    /\ IF lk_model_idx < Len(chain_models_to_try)
       THEN /\ lk_model_idx' = lk_model_idx + 1
            /\ lk_call_result' = "pending"
            /\ UNCHANGED <<ctx_json, store, lk_pc, chain_idx, linked_count, sent,
                           chain_hist, store_reads, store_writes, save_log>>
       ELSE /\ lk_call_result' = "returned"
            /\ ProcessChain(<<>>)

\* process_indirect_chain is called again, on the document it returned
LinkAgain ==
    /\ lk_pc = "returned"
    /\ ~second_run
    /\ second_run' = TRUE
    /\ lk_pc' = "init"
    /\ ctx_in' = ctx_json
    /\ linked_count' = 0
    /\ chain_idx' = 0
    /\ sent' = <<>>
    /\ chain_hist' = <<>>
    /\ store_reads' = 0
    /\ store_writes' = 0
    /\ lk_calls' = <<>>
    /\ lk_call_result' = "pending"
    /\ UNCHANGED <<validator_vars, extractor_vars>>
    /\ UNCHANGED <<api_key, env_key, ctx_json, store, lk_model_idx, store_in, save_log>>

NextLink ==
    \/ LinkStart
    \/ \E text \in ChainReplyTexts : ChainLinkReturns(text)
    \/ ChainLinkFails
    \/ LinkAgain

SpecLink == InitLink /\ [][NextLink]_vars

\* --------------------------------------------------------------- extractor
\* JSON values of every type: an object, an array, an object that holds an
\* array, a scalar (a number, a boolean, null, a plain string) and a string
\* with three backticks in it
JsonValues ==
    {JsonOtherObject, JsonList(<<>>), JsonInteractorsObject(<<R_mix>>), JsonScalar,
     FencedString}

\* "```json\n" + serialize(v) + "\n```"
FencedText(v) == <<Fence, Tag, Ws>> \o serialize(v) \o <<Ws, Fence>>

TextAlphabet ==
    {Fence, Tag, Ws, Junk, Serialized(JsonOtherObject), Serialized(JsonList(<<>>)),
     Serialized(JsonScalar)}

\* two fenced blocks that parse
TwoBlocks ==
    <<Fence, Serialized(JsonOtherObject), Fence, Ws, Fence, Serialized(JsonList(<<>>)), Fence>>
\* a fenced block that does not parse before one that does
BadBlockFirst == <<Fence, Junk, Fence, Fence, Tag, Ws, Serialized(JsonList(<<>>)), Fence>>
\* a text that is a JSON string as a whole and holds a fenced number: "```1```"
FencedNumberString == serialize(StringOf(<<Fence, Serialized(JsonNumber), Fence>>))
\* an object, then a fenced scalar
ObjectThenBlock == <<Serialized(JsonOtherObject), Ws, Fence, Serialized(JsonScalar), Fence>>

PriorityTexts == {TwoBlocks, BadBlockFirst, FencedNumberString, ObjectThenBlock}

ExtractorTexts ==
    {Str(chars) : chars \in SeqsUpTo(TextAlphabet, MaxTextLen)}
    \cup {Str(FencedText(v)) : v \in JsonValues}
    \cup {Str(chars) : chars \in PriorityTexts}
    \cup {Str(serialize(FencedString)), NoneText}

InitExtract ==
    /\ ValidatorIdle
    /\ LinkIdle
    /\ text_in \in ExtractorTexts
    /\ extracted = NotCalled("pending")

\* extract_json_from_llm_response(text_in) is called
Extract ==
    /\ extracted = NotCalled("pending")
    /\ extracted' = extract_json_from_llm_response(text_in)
    /\ UNCHANGED <<validator_vars, linker_vars, text_in>>

NextExtract == Extract

SpecExtract == InitExtract /\ [][NextExtract]_vars

\* ------------------------------------------------------------------ claims
\* validate ran its loop and returned: json_data.interactors is the output
Ran == pc = "returned" /\ json_data.has_ctx /\ input # <<>>

\* the elements batch k added to validated_interactors
Contribution(k) ==
    SubSeq(validated_interactors, batch_hist[k].out_from + 1,
           IF k < Len(batch_hist) THEN batch_hist[k + 1].out_from
           ELSE Len(validated_interactors))

\* the interactors of batch k as they were passed in
OriginalBatch(k) ==
    SubSeq(input, batch_hist[k].start + 1, batch_hist[k].start + batch_hist[k].size)

Range(q) == {q[i] : i \in 1..Len(q)}

\* C1: validate_and_enrich_evidence never propagates an exception, for every
\* document, every batch size and every behaviour of the service.
C1_NeverRaises == pc # "raised"

\* C2: when the service invocation of a batch raises (all models failed), the
\* output holds that batch's original interactors, unmodified, after the
\* output of the earlier batches and before that of the later ones, and the
\* loop goes on to the next batch.
C2_ServiceFailureKeepsBatch ==
    \A k \in 1..Len(batch_hist) :
        LET h == batch_hist[k] IN
        h.outcome = "service_failed" =>
            /\ Contribution(k) = OriginalBatch(k)
            /\ \A i \in 1..Len(out_hist) :
                   /\ (out_hist[i].batch_no < k) <=> (i <= h.out_from)
                   /\ (out_hist[i].batch_no = k) <=>
                          (i > h.out_from /\ i <= h.out_from + h.size)
            /\ IF in_range(h.start + batch_size, input)
               THEN \/ k < Len(batch_hist) /\ batch_hist[k + 1].start = h.start + batch_size
                    \/ /\ k = Len(batch_hist)
                       /\ batch_start = h.start + batch_size
                       /\ pc = "call"
               ELSE k = Len(batch_hist) /\ pc = "returned"

\* a run that returned, where a batch with output before it lost its service
\* invocation and the batch after it was processed
C2_Witness ==
    /\ Ran
    /\ \E k \in 1..Len(batch_hist) :
          /\ batch_hist[k].outcome = "service_failed"
          /\ \/ k < Len(batch_hist) /\ batch_hist[k + 1].outcome = "processed"
             \/ batch_hist[k].out_from > 0

\* C3: whenever a batch fails at any step (service, extraction, or an error
\* while the merge policy runs), the batch adds exactly its original
\* interactors to the output, and nothing taken from the reply.
C3_FailedBatchAddsOriginalOnly ==
    \A k \in 1..Len(batch_hist) :
        batch_hist[k].outcome # "processed" => Contribution(k) = OriginalBatch(k)

\* C4: a reply that parses to JSON that is neither a list nor an object with
\* an `interactors` key leaves the batch's original interactors in the
\* output verbatim.
C4_OtherShapeKeepsOriginal ==
    \A k \in 1..Len(batch_hist) :
        batch_hist[k].shape = "other" => Contribution(k) = OriginalBatch(k)

\* C5: an interactor that the service returned with top-level validity
\* DELETED is not appended to the output, whatever its claims.
C5_DeletedInteractorAbsent ==
    \A i \in 1..Len(out_hist) :
        out_hist[i].how = "merge" => out_hist[i].pre.validity # "DELETED"

\* a processed reply held a DELETED interactor next to one that was kept
C5_Witness ==
    /\ Ran
    /\ \E k \in 1..Len(batch_hist) :
          /\ batch_hist[k].outcome = "processed"
          /\ batch_hist[k].shape = "interactors"
          /\ \E j \in 1..Len(batch_hist[k].results) :
                 /\ batch_hist[k].results[j].validity = "DELETED"
                 /\ batch_hist[k].results[j].functions # <<>>
          /\ Contribution(k) # <<>>

\* the confidence rule as the specification words it
PassesConfidenceRule(func) ==
    func.confidence_score.k = "none"
    \/ (func.confidence_score.k = "int" /\ func.confidence_score.v >= 8)

\* C6: in a returned interactor that is kept, no claim with validity FALSE or
\* DELETED is left in functions, every claim that is CORRECTED, or TRUE and
\* passing the confidence rule, is left, and the claims left stand in the
\* order of the reply.
C6_ClaimsFiltered ==
    \A i \in 1..Len(out_hist) :
        out_hist[i].how = "merge" =>
            LET kept == validated_interactors[i].functions
                pre == out_hist[i].pre.functions
            IN  /\ \A c \in Range(kept) : c.validity \notin {"FALSE", "DELETED"}
                /\ \A c \in Range(pre) :
                       (c.validity = "CORRECTED"
                        \/ (c.validity = "TRUE" /\ PassesConfidenceRule(c)))
                           => c \in Range(kept)
                /\ kept = SelectSeq(pre, LAMBDA c : c \in Range(kept))

\* a kept interactor whose reply held a FALSE claim between a TRUE and a
\* CORRECTED one
C6_Witness ==
    /\ Ran
    /\ \E i \in 1..Len(out_hist) :
          /\ out_hist[i].how = "merge"
          /\ \E a, b, c \in 1..Len(out_hist[i].pre.functions) :
                 /\ a < b /\ b < c
                 /\ out_hist[i].pre.functions[a].validity = "TRUE"
                 /\ out_hist[i].pre.functions[b].validity = "FALSE"
                 /\ out_hist[i].pre.functions[c].validity = "CORRECTED"
          /\ Len(json_data.interactors[i].functions) >= 2

\* C7: a claim with validity TRUE (or without validity) is kept if and only
\* if it has no confidence score or its integer score is at least 8.
C7_ConfidenceRule ==
    \A i \in 1..Len(out_hist) :
        out_hist[i].how = "merge" =>
            \A c \in Range(out_hist[i].pre.functions) :
                (c.validity \in {"TRUE", "ABSENT"} /\ c.confidence_score.k \in {"none", "int"})
                    => (c \in Range(validated_interactors[i].functions)
                            <=> PassesConfidenceRule(c))

\* C8 as stated: after validate returns every output interactor has a claim
\* or top-level validity TRUE.
C8_Original ==
    Ran => \A i \in 1..Len(json_data.interactors) :
               \/ json_data.interactors[i].functions # <<>>
               \/ json_data.interactors[i].validity = "TRUE"

\* C8 amended: after validate returns, every output interactor that the merge
\* policy appended has a claim or top-level validity TRUE; the interactors of
\* a batch that fell back are kept as they are.
C8_MergedHasClaimOrTrue ==
    Ran => /\ Len(out_hist) = Len(json_data.interactors)
           /\ \A i \in 1..Len(json_data.interactors) :
                  out_hist[i].how = "merge" =>
                      \/ json_data.interactors[i].functions # <<>>
                      \/ json_data.interactors[i].validity = "TRUE"

\* one batch's reply lost its only interactor with all its claims, another
\* interactor without claims left was kept for its validity TRUE
C8_Witness ==
    /\ Ran
    /\ \E k \in 1..Len(batch_hist) :
          /\ batch_hist[k].outcome = "processed"
          /\ batch_hist[k].shape = "interactors"
          /\ Len(batch_hist[k].results) = 1
          /\ batch_hist[k].results[1].kind = "dict"
          /\ batch_hist[k].results[1].validity = "ABSENT"
          /\ batch_hist[k].results[1].functions # <<>>
          /\ Contribution(k) = <<>>
    /\ \E i \in 1..Len(out_hist) :
          /\ out_hist[i].how = "merge"
          /\ out_hist[i].pre.functions # <<>>
          /\ json_data.interactors[i].functions = <<>>

\* C9 as stated: after validate returns every claim of every output
\* interactor has validity TRUE or CORRECTED.
C9_Original ==
    Ran => \A i \in 1..Len(json_data.interactors) :
               \A c \in Range(json_data.interactors[i].functions) :
                   c.validity \in {"TRUE", "CORRECTED"}

\* C9 amended: after validate returns, no claim of an output interactor that
\* the merge policy appended has validity FALSE or DELETED (it is TRUE,
\* CORRECTED, absent or a tag the policy does not know).
C9_MergedClaimsNotRejected ==
    Ran => /\ Len(out_hist) = Len(json_data.interactors)
           /\ \A i \in 1..Len(json_data.interactors) :
                  out_hist[i].how = "merge" =>
                      \A c \in Range(json_data.interactors[i].functions) :
                          c.validity \notin {"FALSE", "DELETED"}

\* a kept interactor lost a FALSE and a DELETED claim and kept a claim with
\* an unknown tag
C9_Witness ==
    /\ Ran
    /\ \E i \in 1..Len(out_hist) :
          /\ out_hist[i].how = "merge"
          /\ \E c \in Range(out_hist[i].pre.functions) : c.validity = "FALSE"
          /\ \E c \in Range(out_hist[i].pre.functions) : c.validity = "DELETED"
          /\ \E c \in Range(json_data.interactors[i].functions) :
                 c.validity \notin {"TRUE", "CORRECTED", "ABSENT"}

\* C10: the attempts of one invocation go through the models in list order,
\* at most 3 on one model, a model is entered only after an attempt on the
\* one before it failed, and no attempt follows a successful one.
C10_CallOrder ==
    /\ \A j \in 1..Len(calls) :
          /\ calls[j].model \in 1..Len(models_to_try)
          /\ calls[j].attempt \in 1..3
          /\ j = 1 => calls[j].model = 1 /\ calls[j].attempt = 1
          /\ j > 1 =>
                /\ calls[j - 1].outcome # "ok"
                /\ \/ /\ calls[j].model = calls[j - 1].model
                      /\ calls[j].attempt = calls[j - 1].attempt + 1
                   \/ /\ calls[j].model = calls[j - 1].model + 1
                      /\ calls[j].attempt = 1
    /\ (calls # <<>> /\ calls[Len(calls)].outcome = "ok") <=> call_result = "returned"
    /\ tracing /\ pc = "call" /\ call_result = "pending" =>
          \* the next attempt is the one after the last recorded
          IF calls = <<>> THEN model_idx = 1 /\ attempt = 1
          ELSE /\ calls[Len(calls)].outcome # "ok"
               /\ \/ /\ model_idx = calls[Len(calls)].model
                     /\ attempt = calls[Len(calls)].attempt + 1
                  \/ /\ model_idx = calls[Len(calls)].model + 1
                     /\ attempt = 1

\* three failed attempts on the first model, then success on the second
C10_Witness ==
    /\ call_result = "returned"
    /\ Len(calls) = 4
    /\ calls[3].model = 1 /\ calls[3].attempt = 3 /\ calls[3].outcome = "error"
    /\ calls[4].model = 2 /\ calls[4].attempt = 1 /\ calls[4].outcome = "ok"

\* C11: an attempt that fails with a 404 / "not found" error is the last on
\* its model and is followed by no sleep: the next attempt, if any, is the
\* first on the next model, and after the last model the invocation raises.
C11_NotFoundAbandonsModel ==
    \A j \in 1..Len(calls) :
        calls[j].outcome = "not_found" =>
            /\ calls[j].slept = 0
            /\ j < Len(calls) =>
                  calls[j + 1].model = calls[j].model + 1 /\ calls[j + 1].attempt = 1
            /\ j = Len(calls) =>
                  IF calls[j].model = Len(models_to_try)
                  THEN call_result = "raised"
                  ELSE /\ call_result = "pending"
                       /\ model_idx = calls[j].model + 1
                       /\ attempt = 1

\* a transient failure and its sleep, then "not found" on the first model,
\* then the first attempt on the second model
C11_Witness ==
    /\ Len(calls) = 3
    /\ calls[1].outcome = "error" /\ calls[1].slept = 5
    /\ calls[2].model = 1 /\ calls[2].attempt = 2 /\ calls[2].outcome = "not_found"
    /\ calls[3].model = 2 /\ calls[3].attempt = 1

\* the invocation that has ended ran out of models: its last attempt was on
\* the last model, failed, and no retry was left
Exhausted ==
    /\ calls # <<>>
    /\ \A j \in 1..Len(calls) : calls[j].outcome # "ok"
    /\ calls[Len(calls)].model = Len(models_to_try)
    /\ calls[Len(calls)].slept = 0
    /\ calls[Len(calls)].outcome = "not_found" \/ calls[Len(calls)].attempt = max_retries

\* C12: the service invocation raises exactly when its last attempt failed
\* on the last model with no retry left; it returns only after an attempt
\* that succeeded; and the batch whose invocation raised is kept as it was
\* while the run goes on.
C12_RaisesWhenExhausted ==
    tracing =>
        /\ call_result = "raised" <=> (Exhausted /\ pc # "init")
        /\ call_result = "returned" =>
              calls # <<>> /\ calls[Len(calls)].outcome = "ok"
        /\ call_result = "raised" =>
              /\ pc \in {"call", "returned"}
              /\ batch_hist # <<>>
              /\ batch_hist[Len(batch_hist)].outcome = "service_failed"
              /\ Contribution(Len(batch_hist)) = OriginalBatch(Len(batch_hist))
        /\ \A k \in 1..Len(batch_hist) :
              batch_hist[k].outcome = "service_failed" /\ k = Len(batch_hist) =>
                  call_result = "raised" \/ pc = "call"

\* the first batch's invocation raised after six failed attempts and the
\* second batch is being validated
C12_Witness ==
    /\ call_result = "raised"
    /\ Len(calls) = 6
    /\ pc = "call"
    /\ Len(batch_hist) = 1
    /\ validated_interactors = OriginalBatch(1)

\* C13: call_gemini_chain_link follows the call pattern of the validator: a
\* failed attempt on a model with fewer than 3 attempts is followed, after
\* the backoff sleep, by another attempt on that model, and the call returns
\* a text only after an attempt that succeeded (it raises otherwise).
C13_SameCallPattern ==
    /\ lk_call_result = "returned" => lk_calls[Len(lk_calls)].outcome = "ok"
    /\ \A j \in 1..Len(lk_calls) :
          lk_calls[j].outcome = "error" /\ lk_calls[j].attempt < max_retries =>
              /\ lk_calls[j].slept = backoff_delay(lk_calls[j].attempt)
              /\ j < Len(lk_calls) =>
                    /\ lk_calls[j + 1].model = lk_calls[j].model
                    /\ lk_calls[j + 1].attempt = lk_calls[j].attempt + 1

\* this run of the linker has no credential, or its document has no
\* indirect interactor with an upstream_interactor
NothingToLink ==
    \/ api_key = "" /\ env_key = "none"
    \/ \A i \in 1..Len(ctx_in) :
          ctx_in[i].interaction_type # "indirect" \/ ctx_in[i].upstream_interactor = "none"

\* C14: without a credential, or without an indirect interactor that has an
\* upstream_interactor, the linker returns its document as it was given and
\* makes no service call, no store read and no store write.
C14_SoftSkip ==
    NothingToLink =>
        /\ lk_pc \in {"init", "returned"}
        /\ ctx_json = ctx_in
        /\ store = store_in
        /\ sent = <<>> /\ lk_calls = <<>>
        /\ store_reads = 0 /\ store_writes = 0

\* the linker returned without a credential, on a document with an indirect
\* interactor and its mediator
C14_Witness ==
    /\ lk_pc = "returned"
    /\ api_key = "" /\ env_key = "none"
    /\ \E i \in 1..Len(ctx_in) : is_indirect(ctx_in[i])
    /\ store = StoreWithRecord

\* C15: the linker never raises because of one chain: a chain whose call
\* failed or whose reply is unparseable text or JSON of any shape other than
\* a claim object is skipped without a save and without an annotation.
C15_ChainNeverRaises ==
    /\ lk_pc # "raised"
    /\ \A k \in 1..Len(chain_hist) :
          chain_hist[k].reply # "object" =>
              /\ ~chain_hist[k].saved
              /\ ctx_json[chain_hist[k].pos] = ctx_in[chain_hist[k].pos]

\* the claims saved for the pair key, in the order of the saves
RECURSIVE claims_saved(_, _)
claims_saved(log, key) ==
    IF log = <<>> THEN <<>>
    ELSE (IF <<Head(log).mediator, Head(log).target>> = key THEN <<Head(log).claim>>
          ELSE <<>>) \o claims_saved(Tail(log), key)

\* C16: the store holds one record for each pair that was there before or
\* was saved; its functions are the claims it had before the first run, in
\* their order, followed by the claims saved for the pair, in the order of
\* the saves; the other fields of a record that was there before are kept.
C16_MergeNotReplace ==
    /\ DOMAIN store = DOMAIN store_in
                      \cup {<<save_log[j].mediator, save_log[j].target>> :
                               j \in 1..Len(save_log)}
    /\ \A key \in DOMAIN store :
          IF key \in DOMAIN store_in
          THEN store[key] = [store_in[key] EXCEPT
                                !.functions = @ \o claims_saved(save_log, key)]
          ELSE /\ store[key].functions = claims_saved(save_log, key)
               /\ store[key].primary = key[2]

\* two runs, one save each for M1 -> T1 on an empty store: the record holds
\* both claims, the first one first
C16_Witness ==
    /\ second_run /\ lk_pc = "returned"
    /\ store_in = EmptyStore
    /\ Len(save_log) = 2 /\ store_writes = 1
    /\ DOMAIN store = {<<"M1", "T1">>}
    /\ store[<<"M1", "T1">>].functions = <<ClaimA, ClaimB>>

SavedChains == {k \in 1..Len(chain_hist) : chain_hist[k].saved}

Extracted == extracted.error \notin {"idle", "pending"}

\* C18: for every JSON value v, the extractor returns v for the text
\* "```json\n" + serialize(v) + "\n```".
C18_RoundTrip ==
    \A v \in JsonValues :
        Extracted /\ text_in = Str(FencedText(v)) => extracted.ok /\ extracted.value = v

\* C19: a call that recovers no JSON ends with the parse error (ValueError)
\* whose message carries the length of the text, also for the empty and the
\* absent text, and with no other exception type.
C19_OnlyParseError ==
    Extracted /\ ~extracted.ok =>
        /\ extracted.error = "ValueError"
        /\ extracted.length = Len(text_in.chars)

\* what the element of the output recorded by h is: a returned interactor
\* with the claims that survived, or an interactor of a batch that fell back
Survivor(h) ==
    IF h.how = "merge"
    THEN [h.pre EXCEPT !.functions = filter_functions(h.pre.functions).valid_functions]
    ELSE h.pre

C21_ReturnsWithinBound ==
    /\ pc # "raised"
    /\ Len(calls) <= 3 * Len(models_to_try)

\* C22: for batch_size >= 1 the batches are the consecutive slices of the
\* input: batch k starts at (k - 1) * batch_size and holds batch_size
\* interactors, the last one what is left; the service is invoked for one
\* batch at a time, the next batch only when the one before it is finished,
\* and when validate returns there were ceil(n / batch_size) batches.
C22_ContiguousBatches ==
    batch_size >= 1 /\ json_data.has_ctx /\ input # <<>> /\ pc \in {"call", "returned"} =>
        LET n == Len(input) IN
        /\ Len(json_data.interactors) = n \/ pc = "returned"
        /\ \A k \in 1..Len(batch_hist) :
              /\ batch_hist[k].start = (k - 1) * batch_size
              /\ batch_hist[k].size = Min(batch_size, n - batch_hist[k].start)
              /\ batch_hist[k].size >= 1
        /\ pc = "call" =>
              batch_start = Len(batch_hist) * batch_size /\ batch_start < n
        /\ pc = "returned" =>
              /\ Len(batch_hist) * batch_size >= n
              /\ (Len(batch_hist) - 1) * batch_size < n

\* two interactors and batch_size 1: two batches, one after the other
C22_Witness ==
    /\ Ran
    /\ batch_size = 1
    /\ Len(input) = 2
    /\ Len(batch_hist) = 2
    /\ batch_hist[1].start = 0 /\ batch_hist[2].start = 1

\* C23: a sleep follows only a failed attempt 1 or 2 that is not a "not
\* found" failure, lasts 5 seconds after attempt 1 and 10 after attempt 2,
\* and is followed by the next attempt on the same model; no sleep follows a
\* third attempt or a success, so every model starts again at 5 seconds.
C23_BackoffSchedule ==
    \A j \in 1..Len(calls) :
        /\ calls[j].slept \in {0, 5, 10}
        /\ calls[j].outcome = "error" /\ calls[j].attempt = 1 => calls[j].slept = 5
        /\ calls[j].outcome = "error" /\ calls[j].attempt = 2 => calls[j].slept = 10
        /\ calls[j].outcome = "ok" \/ calls[j].attempt = 3 => calls[j].slept = 0
        /\ calls[j].slept # 0 =>
              /\ calls[j].outcome = "error"
              /\ j < Len(calls) =>
                    /\ calls[j + 1].model = calls[j].model
                    /\ calls[j + 1].attempt = calls[j].attempt + 1
              /\ j = Len(calls) =>
                    /\ call_result = "pending"
                    /\ model_idx = calls[j].model
                    /\ attempt = calls[j].attempt + 1

\* sleeps of 5 and 10 seconds on the first model, none after its third
\* attempt, and 5 seconds again after the first attempt on the second model
C23_Witness ==
    /\ Len(calls) = 4
    /\ calls[1].slept = 5 /\ calls[2].slept = 10 /\ calls[3].slept = 0
    /\ calls[3].model = 1 /\ calls[3].attempt = 3
    /\ calls[4].model = 2 /\ calls[4].attempt = 1 /\ calls[4].slept = 5

\* C24: the result is the first fenced block that parses, if there is one;
\* else the whole trimmed text, if it parses; else the span from the first
\* opener to the last closer, if it parses; else the call fails.
C24_StagePriority ==
    Extracted =>
        LET cleaned == strip(text_in.chars)
            blocks == code_blocks(cleaned, 1)
            parsing == {i \in 1..Len(blocks) : json_loads(blocks[i]).ok}
            first == CHOOSE i \in parsing : \A j \in parsing : i <= j
        IN  IF parsing # {}
            THEN extracted.ok /\ extracted.value = json_loads(blocks[first]).value
            ELSE IF json_loads(cleaned).ok
            THEN extracted.ok /\ extracted.value = json_loads(cleaned).value
            ELSE /\ extracted.ok = span_candidate(cleaned).ok
                 /\ extracted.ok => extracted.value = span_candidate(cleaned).value

\* the text "```1```" in quotes is a JSON string as a whole, and the result
\* is the number of its fenced block
C24_Witness ==
    /\ Extracted
    /\ text_in = Str(FencedNumberString)
    /\ json_loads(text_in.chars).ok
    /\ json_loads(text_in.chars).value # JsonNumber
    /\ extracted.ok /\ extracted.value = JsonNumber

\* C25: every claim the reply returns with validity CORRECTED in an
\* interactor that is not marked DELETED is in the output, in the functions
\* of the interactor the merge appended for it, whatever its score and
\* whether or not it has scientific_consensus.
C25_CorrectedKept ==
    \A k \in 1..Len(batch_hist) :
        \A r \in Range(batch_hist[k].results) :
            batch_hist[k].shape = "interactors" /\ r.kind = "dict" /\ r.validity # "DELETED" =>
                \A c \in Range(r.functions) :
                    c.validity = "CORRECTED" =>
                        \E i \in 1..Len(out_hist) :
                            /\ out_hist[i].batch_no = k
                            /\ out_hist[i].how = "merge"
                            /\ validated_interactors[i].primary = r.primary
                            /\ c \in Range(validated_interactors[i].functions)

====
